---- MODULE Spec2Model ----
(***************************************************************************)
(* Model of CppBuildConfigurationManagerImpl                               *)
(* (packages/cpp/src/browser/cpp-build-configurations.ts): the in-memory   *)
(* map of active build configurations per workspace root, its persisted    *)
(* snapshot, the two change emitters, the start-up sequence and the        *)
(* validity filter.                                                        *)
(***************************************************************************)
EXTENDS Integers, Sequences, FiniteSets, Bags, TLC

VARIABLES
    roots,          \* workspaceService.tryGetRoots(): sequence of root uris
    prefs,          \* cppPreferences: scope ("" = no resource) -> raw configuration list
    activeConfigs,  \* this.activeConfigs: Map<string, CppBuildConfiguration | undefined>
    storage,        \* durable slot under ACTIVE_BUILD_CONFIGURATIONS_MAP_STORAGE_KEY
    pending,        \* setData calls issued and not yet durable (oldest first)
    pc,             \* position of init(): awaitPrefs, awaitRead, loaded, ready, failed
    savedConfig,    \* what getData resolved with in loadActiveConfiguration
    calls,          \* setActiveConfig invocations of this instance, in invocation order
    fired2,         \* payloads handed to activeConfigChange2Emitter.fire, in fire order
    fired1,         \* values handed to activeConfigChangeEmitter.fire, in fire order
    seen2,          \* listener of onActiveConfigChange2 -> what it observed, in order
    seen1,          \* what the listener of onActiveConfigChange observed, in order
    thrown,         \* number of TypeErrors raised by calls of this instance
    pendingSrc,     \* history: the in-memory map each pending write was taken from
    storageSrc,     \* history: the in-memory map the durable snapshot was taken from
    nOps,           \* operations performed so far (bounded by MaxOps)
    nRestarts,      \* restarts so far (bounded by MaxRestarts)
    touched,        \* history: roots setActiveConfig was ever called for, in any session
    rawInput,       \* the latest call of getValidConfigs: its root and raw list
    validOutput     \* the latest call of getValidConfigs: what it returned

vars == <<roots, prefs, activeConfigs, storage, pending, pc, savedConfig, calls,
          fired2, fired1, seen2, seen1, thrown, pendingSrc, storageSrc,
          nOps, nRestarts, touched, rawInput, validOutput>>

(***************************************************************************)
(* Bounds of the model.                                                    *)
(***************************************************************************)
MaxOps == 3
MaxNest == 1
MaxRaw == 1
MaxRestarts == 1
MaxLen == 4

(***************************************************************************)
(* Values.                                                                 *)
(***************************************************************************)
\* JavaScript's undefined, as a configuration value.
undefined == [undefined |-> TRUE]

\* A CppBuildConfiguration; commands is an object reference (or "undefined").
Cfg(n, d, k) == [name |-> n, directory |-> d, commands |-> k]

X == Cfg("debug", "/d", "K1")
X2 == Cfg("debug", "/d", "K2")
Y == Cfg("release", "/r", "undefined")
Y2 == Cfg("release", "/s", "undefined")
Bad == Cfg("", "/e", "K2")

RootIds == {"A", "B"}
\* A root argument: "" stands for an omitted (or empty, equally falsy) root.
RootArgs == {""} \cup RootIds
Scopes == {""} \cup RootIds
\* Scopes whose list the preference source changes: the list without a resource,
\* and the list of a root that is not the default one.
PrefScopes == {"", "B"}
RootLists == {<<>>, <<"A", "B">>}

\* Values a caller passes to setActiveConfig.
SetValues == {undefined, X, Y}
\* Entries of the raw configuration lists of the preference source.
PrefPool == {X, X2, Y2, Bad}

SeqsUpTo(S, n) == UNION {[1..k -> S] : k \in 0..n}

PrefLists == SeqsUpTo(PrefPool, MaxRaw)

(***************************************************************************)
(* Map<string, V>: keys in insertion order, and the value of each key.     *)
(***************************************************************************)
NewMap == [keys |-> <<>>, val |-> [k \in {} |-> undefined]]

MapHas(m, k) == k \in DOMAIN m.val

MapGet(m, k) == IF MapHas(m, k) THEN m.val[k] ELSE undefined

\* Variant: storing undefined removes the key (Map.delete).
MapSetOrDelete(m, k, v) ==
    IF v = undefined
    THEN LET ks == SelectSeq(m.keys, LAMBDA x : x # k)
         IN [keys |-> ks, val |-> [x \in DOMAIN m.val \ {k} |-> m.val[x]]]
    ELSE IF k \in DOMAIN m.val
    THEN [keys |-> m.keys, val |-> [x \in DOMAIN m.val |-> IF x = k THEN v ELSE m.val[x]]]
    ELSE [keys |-> Append(m.keys, k),
          val |-> [x \in DOMAIN m.val \cup {k} |-> IF x = k THEN v ELSE m.val[x]]]

\* Variant: the map is emptied before the entry is stored.
MapSetAlone(m, k, v) == [keys |-> <<k>>, val |-> [x \in {k} |-> v]]

\* this.activeConfigs.set(k, v)
MapSet(m, k, v) ==
    IF MapHas(m, k)
    THEN [keys |-> m.keys, val |-> [x \in DOMAIN m.val |-> IF x = k THEN v ELSE m.val[x]]]
    ELSE [keys |-> Append(m.keys, k),
          val |-> [x \in DOMAIN m.val \cup {k} |-> IF x = k THEN v ELSE m.val[x]]]

\* [...map.entries()]
MapEntries(m) == [i \in 1..Len(m.keys) |-> <<m.keys[i], m.val[m.keys[i]]>>]

\* new Map(entries)
RECURSIVE MapFromEntries(_)
MapFromEntries(es) ==
    IF es = <<>> THEN NewMap
    ELSE LET front == MapFromEntries(SubSeq(es, 1, Len(es) - 1))
             last == es[Len(es)]
         IN MapSet(front, last[1], last[2])

(***************************************************************************)
(* External collaborators.                                                 *)
(***************************************************************************)
\* workspaceService.tryGetRoots()
tryGetRoots == roots

\* cppPreferences.get(KEY, [], root) for a root, cppPreferences[KEY] || [] without.
getConfigs(p, root) == p[root]

\* String.prototype.localeCompare on the names of the model: the collation order
\* (letters compare alphabetically before case is looked at).
NameOrder == <<"", "alpha", "Beta", "debug", "release">>

LocaleRank(s) == CHOOSE i \in 1..Len(NameOrder) : NameOrder[i] = s

localeCompare(a, b) ==
    IF LocaleRank(a) < LocaleRank(b) THEN -1
    ELSE IF LocaleRank(a) > LocaleRank(b) THEN 1 ELSE 0

(***************************************************************************)
(* Validity filter.                                                        *)
(***************************************************************************)
\* Variant: the names compared by code unit ("Beta" before "alpha").
CodeUnitOrder == <<"", "Beta", "alpha", "debug", "release">>

CompareByCodeUnit(a, b) ==
    LET ra == CHOOSE i \in 1..Len(CodeUnitOrder) : CodeUnitOrder[i] = a.name
        rb == CHOOSE i \in 1..Len(CodeUnitOrder) : CodeUnitOrder[i] = b.name
    IN IF ra < rb THEN -1 ELSE IF ra > rb THEN 1 ELSE 0

\* The comparator handed to sort: (a, b) => a.name.localeCompare(b.name)
CompareByName(a, b) == localeCompare(a.name, b.name)

\* Array.prototype.sort (stable): x goes after every element not greater than it.
RECURSIVE SortedInsert(_, _)
SortedInsert(s, x) ==
    IF s = <<>> THEN <<x>>
    ELSE IF CompareByName(s[Len(s)], x) <= 0 THEN Append(s, x)
    ELSE Append(SortedInsert(SubSeq(s, 1, Len(s) - 1), x), s[Len(s)])

RECURSIVE SortByName(_)
SortByName(s) ==
    IF s = <<>> THEN <<>>
    ELSE SortedInsert(SortByName(SubSeq(s, 1, Len(s) - 1)), s[Len(s)])

\* The predicate handed to filter: a => a.name !== '' && a.directory !== ''
IsValidConfig(a) == a.name # "" /\ a.directory # ""

FilterValid(s) == SelectSeq(s, IsValidConfig)

getValidConfigs(p, root) == SortByName(FilterValid(getConfigs(p, root)))

(***************************************************************************)
(* Equality of configurations.                                             *)
(***************************************************************************)
\* The exported function equals (name, directory and commands, by reference).
equals(a, b) ==
    a.name = b.name /\ a.directory = b.directory /\ a.commands = b.commands

\* Variant: the names alone decide.
equalsNameOnly(a, b) == a.name = b.name

\* Variant: the commands are compared as well.
equalsWithCommands(a, b) ==
    a.name = b.name /\ a.directory = b.directory /\ a.commands = b.commands

\* The method this.equals (name and directory).
this_equals(a, b) == a.name = b.name /\ a.directory = b.directory

(***************************************************************************)
(* The registry. An operation maps a registry record to a registry record; *)
(* an action applies it to the variables.                                  *)
(***************************************************************************)
Registry ==
    [activeConfigs |-> activeConfigs, pending |-> pending, pendingSrc |-> pendingSrc,
     calls |-> calls, fired2 |-> fired2, fired1 |-> fired1,
     seen2 |-> seen2, seen1 |-> seen1, thrown |-> thrown]

\* tryGetRoots()[0].uri of an empty list of roots: a TypeError.
Throws(root) == root = "" /\ tryGetRoots = <<>>

\* Variant: the first workspace root whatever root is given.
ResolveRootFirst(root) == IF tryGetRoots # <<>> THEN tryGetRoots[1] ELSE root

\* root ? root : this.workspaceService.tryGetRoots()[0].uri
ResolveRoot(root) == IF root # "" THEN root ELSE tryGetRoots[1]

TypeError == [error |-> "TypeError"]

\* Variant: a root without an entry falls back to the first root's configuration.
getActiveConfigFallback(r, root) ==
    IF Throws(root) THEN TypeError
    ELSE IF MapHas(r.activeConfigs, ResolveRoot(root)) \/ tryGetRoots = <<>>
    THEN MapGet(r.activeConfigs, ResolveRoot(root))
    ELSE MapGet(r.activeConfigs, tryGetRoots[1])

getActiveConfig(r, root) ==
    IF Throws(root) THEN TypeError ELSE MapGet(r.activeConfigs, ResolveRoot(root))

getAllActiveConfigs(r) == r.activeConfigs

\* Variant: only the entries that hold a configuration are written.
saveDefinedEntries(r, configs) ==
    [r EXCEPT !.pending =
                  Append(@, [configs |-> SelectSeq(MapEntries(configs),
                                                   LAMBDA e : e[2] # undefined)]),
              !.pendingSrc = Append(@, configs)]

\* storageService.setData(KEY, { configs: [...configs.entries()] }), not awaited.
saveActiveConfiguration(r, configs) ==
    [r EXCEPT !.pending = Append(@, [configs |-> MapEntries(configs)]),
              !.pendingSrc = Append(@, configs)]

\* Variant: nothing is left out of the map handed to the emitter.
UncompactedMap(m) == m

\* The compacted map of setActiveConfig: the entries whose value is not undefined.
\* (m.keys and the domain of m.val hold the same keys.)
CompactedMap(m) ==
    LET ks == SelectSeq(m.keys, LAMBDA k : m.val[k] # undefined)
    IN [keys |-> ks, val |-> [k \in {ks[i] : i \in 1..Len(ks)} |-> m.val[k]]]

\* The listeners of onActiveConfigChange2, in subscription order.
Listeners2 == <<"L1", "L2">>

\* What a listener notes of an emission: the call that fired it, the payload,
\* what getActiveConfig returns for the call's root at that moment, and how many
\* calls have been invoked by then.
Observation(r, id, payload) ==
    [call |-> id, payload |-> payload,
     read |-> MapGet(r.activeConfigs, r.calls[id].workspaceRoot),
     ncalls |-> Len(r.calls)]

RECURSIVE setActiveConfig(_, _, _, _, _)

\* activeConfigChange2Emitter.fire(payload): each listener is called in turn,
\* synchronously. The first listener's handler makes the calls of its script, one
\* per emission it receives, before it returns.
fire2(r, id, payload, script) ==
    LET r1 == [r EXCEPT !.fired2 =
                   Append(@, [call |-> id, payload |-> payload,
                              map |-> r.activeConfigs,
                              written |-> IF r.pending = <<>> THEN undefined
                                          ELSE r.pending[Len(r.pending)]])]
        r2 == [r1 EXCEPT !.seen2["L1"] = Append(@, Observation(r1, id, payload))]
        r3 == IF script = <<>> THEN r2
              ELSE setActiveConfig(r2, script[1].config, script[1].root,
                                   SubSeq(script, 2, Len(script)), "listener")
        r4 == [r3 EXCEPT !.seen2["L2"] = Append(@, Observation(r3, id, payload))]
    IN r4

\* activeConfigChangeEmitter.fire(config)
fire1(r, id, config) ==
    LET r1 == [r EXCEPT !.fired1 = Append(@, [call |-> id, value |-> config,
                                              fired2Before |-> Len(r.fired2)])]
    IN [r1 EXCEPT !.seen1 = Append(@, Observation(r1, id, config))]

\* Variant: nothing is fired when the value set equals the value already there.
setActiveConfigCoalesced(r, config, root, script, by) ==
    IF Throws(root) THEN [r EXCEPT !.thrown = @ + 1]
    ELSE LET workspaceRoot == ResolveRoot(root)
             id == Len(r.calls) + 1
             r1 == [r EXCEPT !.calls = Append(@, [config |-> config, root |-> root,
                                                  workspaceRoot |-> workspaceRoot,
                                                  by |-> by,
                                                  before |-> r.activeConfigs]),
                             !.activeConfigs = MapSet(@, workspaceRoot, config)]
             r2 == saveActiveConfiguration(r1, r1.activeConfigs)
             activeConfigurations == CompactedMap(getAllActiveConfigs(r2))
         IN IF MapGet(r.activeConfigs, workspaceRoot) = config THEN r2
            ELSE fire1(fire2(r2, id, activeConfigurations, script), id, config)

\* Variant: setting the configuration that is already active clears it.
setActiveConfigToggle(r, config, root, script, by) ==
    IF Throws(root) THEN [r EXCEPT !.thrown = @ + 1]
    ELSE LET workspaceRoot == ResolveRoot(root)
             id == Len(r.calls) + 1
             stored == IF MapGet(r.activeConfigs, workspaceRoot) = config
                       THEN undefined ELSE config
             r1 == [r EXCEPT !.calls = Append(@, [config |-> config, root |-> root,
                                                  workspaceRoot |-> workspaceRoot,
                                                  by |-> by,
                                                  before |-> r.activeConfigs]),
                             !.activeConfigs = MapSet(@, workspaceRoot, stored)]
             r2 == saveActiveConfiguration(r1, r1.activeConfigs)
             activeConfigurations == CompactedMap(getAllActiveConfigs(r2))
             r3 == fire2(r2, id, activeConfigurations, script)
         IN fire1(r3, id, config)

\* Variant: the emitters fire before the map is updated and the write issued.
setActiveConfigFireFirst(r, config, root, script, by) ==
    IF Throws(root) THEN [r EXCEPT !.thrown = @ + 1]
    ELSE LET workspaceRoot == ResolveRoot(root)
             id == Len(r.calls) + 1
             r1 == [r EXCEPT !.calls = Append(@, [config |-> config, root |-> root,
                                                  workspaceRoot |-> workspaceRoot,
                                                  by |-> by,
                                                  before |-> r.activeConfigs])]
             activeConfigurations ==
                 CompactedMap(MapSet(getAllActiveConfigs(r1), workspaceRoot, config))
             r2 == fire1(fire2(r1, id, activeConfigurations, script), id, config)
             r3 == [r2 EXCEPT !.activeConfigs = MapSet(@, workspaceRoot, config)]
         IN saveActiveConfiguration(r3, r3.activeConfigs)

setActiveConfig(r, config, root, script, by) ==
    IF Throws(root) THEN [r EXCEPT !.thrown = @ + 1]
    ELSE LET workspaceRoot == ResolveRoot(root)
             id == Len(r.calls) + 1
             r1 == [r EXCEPT !.calls = Append(@, [config |-> config, root |-> root,
                                                  workspaceRoot |-> workspaceRoot,
                                                  by |-> by,
                                                  before |-> r.activeConfigs]),
                             !.activeConfigs = MapSet(@, workspaceRoot, config)]
             r2 == saveActiveConfiguration(r1, r1.activeConfigs)
             activeConfigurations == CompactedMap(getAllActiveConfigs(r2))
             r3 == fire2(r2, id, activeConfigurations, script)
         IN fire1(r3, id, config)

\* Variant: every workspace root is revalidated against its own list.
handlePreferencesUpdateAllRoots(r, p, script) ==
    IF Throws("") THEN [r EXCEPT !.thrown = @ + 1]
    ELSE LET Stale(q, root) ==
                 LET active == getActiveConfig(q, root)
                     configs == getValidConfigs(p, root)
                 IN active = undefined
                    \/ ~ \E i \in 1..Len(configs) : this_equals(configs[i], active)
             r1 == IF Stale(r, tryGetRoots[1])
                   THEN setActiveConfig(r, undefined, tryGetRoots[1], script, "revalidation")
                   ELSE r
         IN IF Len(tryGetRoots) > 1 /\ Stale(r1, tryGetRoots[2])
            THEN setActiveConfig(r1, undefined, tryGetRoots[2], <<>>, "revalidation")
            ELSE r1

\* Variant: nothing is done when no configuration is active.
handlePreferencesUpdateWhenActive(r, p, script) ==
    IF Throws("") THEN [r EXCEPT !.thrown = @ + 1]
    ELSE LET active == getActiveConfig(r, "")
             configs == getValidConfigs(p, "")
         IN IF active # undefined
               /\ ~ \E i \in 1..Len(configs) : this_equals(configs[i], active)
            THEN setActiveConfig(r, undefined, "", script, "revalidation")
            ELSE r

handlePreferencesUpdate(r, p, script) ==
    IF Throws("") THEN [r EXCEPT !.thrown = @ + 1]
    ELSE LET active == getActiveConfig(r, "")
             configs == getValidConfigs(p, "")
             valid == IF active # undefined
                      THEN \E i \in 1..Len(configs) : this_equals(configs[i], active)
                      ELSE FALSE
         IN IF ~valid THEN setActiveConfig(r, undefined, "", script, "revalidation")
            ELSE r

\* Variant: the snapshot read is not put into the map.
loadActiveConfigurationSkip(m, saved) == m

\* loadActiveConfiguration, once getData has resolved with saved.
loadActiveConfiguration(m, saved) ==
    IF saved # undefined THEN MapFromEntries(saved.configs) ELSE m

(***************************************************************************)
(* Inputs of the operations.                                               *)
(***************************************************************************)
\* A call a listener makes from inside its handler.
NestedCalls == [config : SetValues, root : RootArgs]

Scripts == SeqsUpTo(NestedCalls, MaxNest)

\* Raw lists for the validity filter: blank fields, equal names, any order.
ValidPool == {Cfg(n, d, "K1") : n \in {"", "alpha", "Beta"}, d \in {"", "/d", "/e"}}

(***************************************************************************)
(* Actions.                                                                *)
(***************************************************************************)
Install(r) ==
    /\ activeConfigs' = r.activeConfigs
    /\ pending' = r.pending
    /\ pendingSrc' = r.pendingSrc
    /\ calls' = r.calls
    /\ fired2' = r.fired2
    /\ fired1' = r.fired1
    /\ seen2' = r.seen2
    /\ seen1' = r.seen1
    /\ thrown' = r.thrown
    /\ touched' = touched \cup {r.calls[i].workspaceRoot : i \in 1..Len(r.calls)}

\* The handler of cppPreferences.onPreferenceChanged is subscribed from here on.
Subscribed == pc \in {"awaitRead", "loaded", "ready", "failed"}

\* this.ready: the promise of init(). Only loadActiveConfiguration().then(resolve)
\* settles it; its executor takes no reject function.
ready == IF pc = "ready" THEN "resolved" ELSE "pending"

\* A caller calls setActiveConfig(config, root).
SetActiveConfig(config, root, script) ==
    /\ nOps + 1 + Len(script) <= MaxOps
    /\ Install(setActiveConfig(Registry, config, root, script, "caller"))
    /\ nOps' = nOps + 1 + Len(script)
    /\ UNCHANGED <<roots, prefs, storage, pc, savedConfig, storageSrc, nRestarts,
                   rawInput, validOutput>>

\* handlePreferencesUpdate calls getValidConfigs() when the active configuration
\* of the default root is truthy.
RevalidationFilters(r) ==
    Subscribed /\ ~Throws("") /\ getActiveConfig(r, "") # undefined

\* The preference source changes the list of a scope and fires its change event.
PreferenceChanged(scope, list, script) ==
    /\ nOps + 1 + Len(script) <= MaxOps
    /\ prefs' = [prefs EXCEPT ![scope] = list]
    /\ IF Subscribed
       THEN Install(handlePreferencesUpdate(Registry, prefs', script))
       ELSE Install(Registry)
    /\ IF RevalidationFilters(Registry)
       THEN /\ rawInput' = [root |-> "", list |-> getConfigs(prefs', "")]
            /\ validOutput' = getValidConfigs(prefs', "")
       ELSE UNCHANGED <<rawInput, validOutput>>
    /\ nOps' = nOps + 1 + Len(script)
    /\ UNCHANGED <<roots, storage, pc, savedConfig, storageSrc, nRestarts>>

\* init(): cppPreferences.ready resolves; the read is issued (not awaited) and the
\* handler is subscribed.
PreferencesReady ==
    /\ pc = "awaitPrefs"
    /\ pc' = "awaitRead"
    /\ UNCHANGED <<roots, prefs, activeConfigs, storage, pending, savedConfig, calls,
                   fired2, fired1, seen2, seen1, thrown, pendingSrc, storageSrc,
                   nOps, nRestarts, touched, rawInput, validOutput>>

\* storageService.getData rejects.
StorageReadFails ==
    /\ pc = "awaitRead"
    /\ pc' = "failed"
    /\ UNCHANGED <<roots, prefs, activeConfigs, storage, pending, savedConfig, calls,
                   fired2, fired1, seen2, seen1, thrown, pendingSrc, storageSrc,
                   nOps, nRestarts, touched, rawInput, validOutput>>

\* storageService.getData resolves with what the durable slot holds and
\* loadActiveConfiguration resumes after its await; ready is still pending.
LoadDone ==
    /\ pc = "awaitRead"
    /\ savedConfig' = storage
    /\ activeConfigs' = loadActiveConfiguration(activeConfigs, savedConfig')
    /\ pc' = "loaded"
    /\ UNCHANGED <<roots, prefs, storage, pending, calls,
                   fired2, fired1, seen2, seen1, thrown, pendingSrc, storageSrc,
                   nOps, nRestarts, touched, rawInput, validOutput>>

\* The reaction .then(resolve) to the promise of loadActiveConfiguration runs, in
\* a later microtask than the one that installed the snapshot: ready resolves.
ReadyResolves ==
    /\ pc = "loaded"
    /\ pc' = "ready"
    /\ UNCHANGED <<roots, prefs, activeConfigs, storage, pending, savedConfig, calls,
                   fired2, fired1, seen2, seen1, thrown, pendingSrc, storageSrc,
                   nOps, nRestarts, touched, rawInput, validOutput>>

\* The oldest setData becomes durable.
StorageWriteDone ==
    /\ pending # <<>>
    /\ storage' = pending[1]
    /\ storageSrc' = pendingSrc[1]
    /\ pending' = SubSeq(pending, 2, Len(pending))
    /\ pendingSrc' = SubSeq(pendingSrc, 2, Len(pendingSrc))
    /\ UNCHANGED <<roots, prefs, activeConfigs, pc, savedConfig, calls,
                   fired2, fired1, seen2, seen1, thrown,
                   nOps, nRestarts, touched, rawInput, validOutput>>

NoObservations == [l \in {Listeners2[i] : i \in 1..Len(Listeners2)} |-> <<>>]

\* The application restarts: a new registry is constructed over the same durable
\* store; writes still in flight are lost.
Restart ==
    /\ nRestarts < MaxRestarts
    /\ nRestarts' = nRestarts + 1
    /\ activeConfigs' = NewMap
    /\ pending' = <<>>
    /\ pendingSrc' = <<>>
    /\ pc' = "awaitPrefs"
    /\ savedConfig' = undefined
    /\ calls' = <<>>
    /\ fired2' = <<>>
    /\ fired1' = <<>>
    /\ seen2' = NoObservations
    /\ seen1' = <<>>
    /\ thrown' = 0
    /\ UNCHANGED <<roots, prefs, storage, storageSrc, nOps, touched, rawInput,
                   validOutput>>

Init ==
    /\ roots \in RootLists
    /\ prefs = [s \in Scopes |-> <<>>]
    /\ activeConfigs = NewMap
    /\ storage = undefined
    /\ pending = <<>>
    /\ pc = "awaitPrefs"
    /\ savedConfig = undefined
    /\ calls = <<>>
    /\ fired2 = <<>>
    /\ fired1 = <<>>
    /\ seen2 = NoObservations
    /\ seen1 = <<>>
    /\ thrown = 0
    /\ pendingSrc = <<>>
    /\ storageSrc = NewMap
    /\ nOps = 0
    /\ nRestarts = 0
    /\ touched = {}
    /\ rawInput = [root |-> "", list |-> <<>>]
    /\ validOutput = <<>>

\* The registry with listeners that only observe.
Next ==
    \/ \E config \in SetValues, root \in RootArgs :
          SetActiveConfig(config, root, <<>>)
    \/ \E scope \in PrefScopes, list \in PrefLists :
          PreferenceChanged(scope, list, <<>>)
    \/ PreferencesReady
    \/ LoadDone
    \/ ReadyResolves
    \/ StorageReadFails
    \/ StorageWriteDone
    \/ Restart

Spec == Init /\ [][Next]_vars

\* One session of the registry with a first listener that calls setActiveConfig
\* from its handler.
NextReentrant ==
    \/ \E config \in SetValues, root \in RootArgs, script \in Scripts :
          SetActiveConfig(config, root, script)
    \/ \E list \in PrefLists, script \in Scripts :
          PreferenceChanged("", list, script)
    \/ PreferencesReady
    \/ LoadDone
    \/ ReadyResolves
    \/ StorageWriteDone

SpecReentrant == Init /\ [][NextReentrant]_vars

\* One session of the registry in which the durable store answers the read of
\* loadActiveConfiguration, with a value or with a failure.
NextSession ==
    \/ \E config \in SetValues, root \in RootArgs :
          SetActiveConfig(config, root, <<>>)
    \/ \E scope \in PrefScopes, list \in PrefLists :
          PreferenceChanged(scope, list, <<>>)
    \/ PreferencesReady
    \/ LoadDone
    \/ ReadyResolves
    \/ StorageReadFails
    \/ StorageWriteDone

SpecLive ==
    /\ Init /\ [][NextSession]_vars
    /\ WF_vars(LoadDone \/ StorageReadFails)
    /\ WF_vars(ReadyResolves)

\* A caller takes the map returned by getAllActiveConfigs(), which is the object
\* this.activeConfigs itself, and calls set(k, v) on it.
MutateReturnedMap(k, v) ==
    /\ nOps < MaxOps
    /\ activeConfigs' = MapSet(getAllActiveConfigs(Registry), k, v)
    /\ nOps' = nOps + 1
    /\ UNCHANGED <<roots, prefs, storage, pending, pc, savedConfig, calls,
                   fired2, fired1, seen2, seen1, thrown, pendingSrc, storageSrc,
                   nRestarts, touched, rawInput, validOutput>>

\* One session of the registry with a caller that writes to the returned map.
NextAliased ==
    \/ \E config \in SetValues, root \in RootArgs :
          SetActiveConfig(config, root, <<>>)
    \/ \E list \in PrefLists :
          PreferenceChanged("", list, <<>>)
    \/ PreferencesReady
    \/ LoadDone
    \/ ReadyResolves
    \/ StorageWriteDone
    \/ \E k \in RootIds, v \in SetValues :
          MutateReturnedMap(k, v)

SpecAliased == Init /\ [][NextAliased]_vars

(***************************************************************************)
(* The validity filter on its own: a raw list is drawn, getValidConfigs is *)
(* applied to it.                                                          *)
(***************************************************************************)
GetValidConfigs(root) ==
    /\ nOps = 0
    /\ rawInput' = [root |-> root, list |-> getConfigs(prefs, root)]
    /\ validOutput' = getValidConfigs(prefs, root)
    /\ nOps' = 1
    /\ UNCHANGED <<roots, prefs, activeConfigs, storage, pending, pc, savedConfig,
                   calls, fired2, fired1, seen2, seen1, thrown, pendingSrc,
                   storageSrc, nRestarts, touched>>

InitValid ==
    /\ roots = <<"A", "B">>
    /\ \E scope \in Scopes, list \in SeqsUpTo(ValidPool, MaxLen) :
          prefs = [s \in Scopes |-> IF s = scope THEN list ELSE <<>>]
    /\ activeConfigs = NewMap
    /\ storage = undefined
    /\ pending = <<>>
    /\ pc = "awaitPrefs"
    /\ savedConfig = undefined
    /\ calls = <<>>
    /\ fired2 = <<>>
    /\ fired1 = <<>>
    /\ seen2 = NoObservations
    /\ seen1 = <<>>
    /\ thrown = 0
    /\ pendingSrc = <<>>
    /\ storageSrc = NewMap
    /\ nOps = 0
    /\ nRestarts = 0
    /\ touched = {}
    /\ rawInput = [root |-> "", list |-> <<>>]
    /\ validOutput = <<>>

NextValid == \E root \in Scopes : GetValidConfigs(root)

SpecValid == InitValid /\ [][NextValid]_vars

(***************************************************************************)
(* Vocabulary of the properties.                                           *)
(***************************************************************************)
Last(q) == q[Len(q)]

ListenerIds == {Listeners2[i] : i \in 1..Len(Listeners2)}

\* The step is one setActiveConfig call (and nothing nested in it).
OneCallStep == Len(calls') = Len(calls) + 1

\* The step is one call made by a caller of the registry.
CallerCallStep == OneCallStep /\ calls'[Len(calls')].by = "caller"

\* The step is a change notification of the preference source that the handler
\* handled, with workspace roots present.
HandledNotificationStep ==
    /\ nOps' = nOps + 1
    /\ Subscribed
    /\ roots # <<>>
    /\ ~CallerCallStep

\* The snapshot loaded at initialization holds a configuration for root.
InLoadedSnapshot(root) ==
    /\ savedConfig # undefined
    /\ \E i \in 1..Len(savedConfig.configs) :
          savedConfig.configs[i][1] = root /\ savedConfig.configs[i][2] # undefined

Count(q, c) == Cardinality({i \in 1..Len(q) : q[i] = c})

\* Two maps hold the same roots and, per root, the same configuration or absence.
SameEntries(a, b) ==
    /\ DOMAIN a.val = DOMAIN b.val
    /\ \A k \in DOMAIN a.val :
          \/ a.val[k] = undefined /\ b.val[k] = undefined
          \/ a.val[k] # undefined /\ b.val[k] # undefined /\ equals(a.val[k], b.val[k])

(***************************************************************************)
(* C1. Read-your-write: right after a call setActiveConfig(c, r) the map   *)
(* holds c at r (at the first workspace root when r is omitted),           *)
(* getActiveConfig(r) returns c, and the write of that call is only        *)
(* issued: the durable slot is as before.                                  *)
(***************************************************************************)
C1_ReadYourWrite ==
    [][CallerCallStep =>
         LET c == calls'[Len(calls')]
         IN /\ c.root # "" => c.workspaceRoot = c.root
            /\ c.root = "" => c.workspaceRoot = roots[1]
            /\ getActiveConfig(Registry', c.root) = c.config
            /\ MapHas(getAllActiveConfigs(Registry'), c.workspaceRoot)
            /\ getAllActiveConfigs(Registry').val[c.workspaceRoot] = c.config
            /\ Len(pending') = Len(pending) + 1
            /\ storage' = storage]_vars

\* C1 witness: X was set for the omitted root and for an explicit root, is read
\* back, and nothing has been made durable yet.
C1_Witness ==
    /\ Len(calls) = 2
    /\ calls[1].root = "" /\ calls[1].config = X
    /\ calls[2].root = "B" /\ calls[2].config = X
    /\ getActiveConfig(Registry, "") = X
    /\ getActiveConfig(Registry, "B") = X
    /\ Len(pending) = 2
    /\ storage = undefined

(***************************************************************************)
(* C2. Revalidation clears a stale selection: when a change notification   *)
(* is handled while the first root has an active configuration c and no    *)
(* entry of getValidConfigs() has c's name and directory, then afterwards  *)
(* the first root's active configuration is undefined, the multi-root      *)
(* emitter has fired once with a map that has no entry for the first root, *)
(* and the legacy emitter has fired once with undefined.                   *)
(***************************************************************************)
C2_RevalidationClearsStale ==
    [][(/\ HandledNotificationStep
        /\ MapGet(activeConfigs, roots[1]) # undefined
        /\ LET c == MapGet(activeConfigs, roots[1])
               v == getValidConfigs(prefs', "")
           IN ~ \E i \in 1..Len(v) :
                   v[i].name = c.name /\ v[i].directory = c.directory)
       => /\ getActiveConfig(Registry', "") = undefined
          /\ Len(fired2') = Len(fired2) + 1
          /\ ~MapHas(Last(fired2').payload, roots[1])
          /\ \A l \in ListenerIds :
                /\ Len(seen2'[l]) = Len(seen2[l]) + 1
                /\ Last(seen2'[l]).payload = Last(fired2').payload
          /\ Len(fired1') = Len(fired1) + 1
          /\ Last(fired1').value = undefined
          /\ Len(seen1') = Len(seen1) + 1
          /\ Last(seen1').payload = undefined]_vars

\* C2 witness: revalidation has cleared Y, which had become stale because the only
\* entry left with its name has another directory.
C2_Witness ==
    /\ calls # <<>>
    /\ Last(calls).by = "revalidation"
    /\ MapGet(Last(calls).before, "A") = Y
    /\ prefs[""] = <<Y2>>
    /\ getActiveConfig(Registry, "") = undefined

(***************************************************************************)
(* C3. Graceful default-root resolution: with no workspace roots,          *)
(* getActiveConfig() returns undefined and no call raises an error.        *)
(***************************************************************************)
C3_GracefulWithoutRoots ==
    roots = <<>> => getActiveConfig(Registry, "") = undefined /\ thrown = 0

(***************************************************************************)
(* C4. Notification ordering without coalescing.                           *)
(***************************************************************************)
\* The calls whose emission a listener observed, in the order it observed them.
SeenCalls(l) == [i \in 1..Len(seen2[l]) |-> seen2[l][i].call]

\* Where in a listener's observations the emission of call id stands.
SeenAt(l, id) == CHOOSE i \in 1..Len(seen2[l]) : seen2[l][i].call = id

\* C4 as stated: every listener of the multi-root stream observes the emissions of
\* all calls, one per call, in the order the calls were invoked, calls made from
\* inside a listener's handler and calls made by revalidation included.
C4_InvocationOrderForAllCalls ==
    \A l \in ListenerIds : SeenCalls(l) = [i \in 1..Len(calls) |-> i]

\* C4 amended: every listener observes exactly one emission per call that resolved
\* a root, carrying the payload fired for that call, none dropped or merged even
\* when the value set equals the value already there; a call that was not made
\* from inside a listener's handler (a caller's or revalidation's) is observed
\* after every call invoked before it; a call made from inside the first
\* listener's handler is observed by the first listener in invocation order and
\* by the listener registered after it before the emission of the call that was
\* in progress.
C4_OneEmissionPerCall ==
    /\ Len(fired2) = Len(calls)
    /\ \A l \in ListenerIds :
          /\ Len(seen2[l]) = Len(calls)
          /\ {seen2[l][i].call : i \in 1..Len(seen2[l])} = 1..Len(calls)
          /\ \A i \in 1..Len(seen2[l]) :
                seen2[l][i].payload = fired2[seen2[l][i].call].payload
          /\ \A i, j \in 1..Len(calls) :
                (i < j /\ calls[j].by # "listener") => SeenAt(l, i) < SeenAt(l, j)
    /\ SeenCalls("L1") = [i \in 1..Len(calls) |-> i]
    /\ \A j \in 2..Len(calls) :
          calls[j].by = "listener" => SeenAt("L2", j) < SeenAt("L2", j - 1)

\* C4 witness: a caller set X, revalidation then cleared it, and during that
\* emission the first listener made a call of its own: the second listener saw
\* the listener's call before revalidation's.
C4_Witness ==
    /\ Len(calls) = 3
    /\ calls[1].by = "caller" /\ calls[1].config = X /\ calls[1].root = ""
    /\ calls[2].by = "revalidation"
    /\ calls[3].by = "listener"
    /\ SeenCalls("L1") = <<1, 2, 3>>
    /\ SeenCalls("L2") = <<1, 3, 2>>

(***************************************************************************)
(* C5. Multi-root emission payload: every payload handed to the multi-root *)
(* emitter holds exactly the roots whose value in the in-memory map at     *)
(* that moment is not undefined, each with that value; it never maps a     *)
(* root to undefined.                                                      *)
(***************************************************************************)
C5_PayloadIsCompactedMap ==
    \A i \in 1..Len(fired2) :
        LET e == fired2[i]
        IN /\ DOMAIN e.payload.val = {e.payload.keys[n] : n \in 1..Len(e.payload.keys)}
           /\ e.map = MapSet(calls[e.call].before, calls[e.call].workspaceRoot,
                             calls[e.call].config)
           /\ \A k \in DOMAIN e.payload.val :
                 e.payload.val[k] # undefined /\ e.payload.val[k] = MapGet(e.map, k)
           /\ \A k \in DOMAIN e.map.val :
                 e.map.val[k] # undefined => k \in DOMAIN e.payload.val

\* C5 witness: after setActiveConfig(X, A), setActiveConfig(Y, B) and a clear of A
\* the emissions were {A: X}, {A: X, B: Y} and {B: Y}.
C5_Witness ==
    /\ Len(fired2) = 3
    /\ fired2[2].payload = [keys |-> <<"A", "B">>, val |-> [k \in {"A", "B"} |->
                                                        IF k = "A" THEN X ELSE Y]]
    /\ fired2[3].payload = [keys |-> <<"B">>, val |-> [k \in {"B"} |-> Y]]
    /\ MapHas(fired2[3].map, "A")

(***************************************************************************)
(* C6. Round trip through persistence: when initialization loads a         *)
(* snapshot, the map it installs has the same roots as the in-memory map   *)
(* the snapshot was saved from and, per root, an equal configuration       *)
(* (name, directory, commands) or undefined where that map held undefined. *)
(***************************************************************************)
C6_RoundTrip ==
    [][(pc = "awaitRead" /\ pc' = "loaded" /\ storage # undefined)
       => SameEntries(activeConfigs', storageSrc)]_vars

\* C6 witness: after a restart the registry has loaded a snapshot that holds X for
\* one root and undefined for another.
C6_Witness ==
    /\ nRestarts = 1
    /\ pc = "ready"
    /\ calls = <<>>
    /\ savedConfig # undefined
    /\ \E a, b \in RootIds :
          /\ MapHas(activeConfigs, a) /\ activeConfigs.val[a] = X
          /\ MapHas(activeConfigs, b) /\ activeConfigs.val[b] = undefined
          /\ MapHas(storageSrc, b)

(***************************************************************************)
(* C7. setActiveConfig is idempotent on the map and not on notifications:  *)
(* every call fires the multi-root emitter once (each listener observes    *)
(* one more emission), and a call that repeats the call before it, with    *)
(* the map as that call left it, leaves the map as it is.                  *)
(***************************************************************************)
C7_IdempotentOnMapOnly ==
    [][CallerCallStep =>
         /\ Len(fired2') = Len(fired2) + 1
         /\ \A l \in ListenerIds : Len(seen2'[l]) = Len(seen2[l]) + 1
         /\ (/\ calls # <<>>
             /\ Last(calls).by = "caller"
             /\ Last(calls).config = Last(calls').config
             /\ Last(calls).root = Last(calls').root
             /\ activeConfigs = Last(fired2).map)
            => activeConfigs' = activeConfigs]_vars

\* C7 witness: setActiveConfig(X, B) was called twice in a row with another root
\* already in the map; both calls fired, with the same payload.
C7_Witness ==
    /\ Len(calls) = 3
    /\ calls[2].by = "caller" /\ calls[2].config = X /\ calls[2].root = "B"
    /\ calls[3] = [calls[2] EXCEPT !.before = calls[3].before]
    /\ calls[3].before = activeConfigs
    /\ Len(fired2) = 3
    /\ fired2[3].payload = fired2[2].payload
    /\ Len(seen2["L2"]) = 3

(***************************************************************************)
(* C8. getValidConfigs result: the entries of the raw list whose name and  *)
(* directory are both non-empty, each as often as it occurs in the raw     *)
(* list, in ascending order of name (locale comparison); no entry with an  *)
(* empty name or directory; the raw list is as it was.                     *)
(***************************************************************************)
C8_ValidConfigsFilteredAndSorted ==
    nOps = 1 =>
        /\ \A i \in 1..Len(validOutput) :
              /\ validOutput[i].name # ""
              /\ validOutput[i].directory # ""
              /\ Count(rawInput.list, validOutput[i]) > 0
        /\ \A i, j \in 1..Len(validOutput) :
              i < j => LocaleRank(validOutput[i].name) <= LocaleRank(validOutput[j].name)
        /\ \A i \in 1..Len(rawInput.list) :
              LET c == rawInput.list[i]
              IN Count(validOutput, c) =
                    IF c.name # "" /\ c.directory # "" THEN Count(rawInput.list, c) ELSE 0
        /\ prefs[rawInput.root] = rawInput.list

\* C8 witness: a raw list with a blank name, a duplicate and names out of order.
C8_Witness ==
    /\ nOps = 1
    /\ rawInput.list = <<Cfg("Beta", "/d", "K1"), Cfg("", "/e", "K1"),
                         Cfg("alpha", "/d", "K1"), Cfg("Beta", "/d", "K1")>>
    /\ validOutput = <<Cfg("alpha", "/d", "K1"), Cfg("Beta", "/d", "K1"),
                       Cfg("Beta", "/d", "K1")>>

(***************************************************************************)
(* C9. Clearing keeps the key: when setActiveConfig(undefined, A) is       *)
(* called while a configuration is active at A, the map handed to the      *)
(* multi-root emitter has no entry for A, getAllActiveConfigs() still has  *)
(* the key A, mapped to undefined, and the entries of the other roots are  *)
(* unchanged in both.                                                      *)
(***************************************************************************)
C9_ClearingKeepsKey ==
    [][(/\ OneCallStep
        /\ Last(calls').config = undefined
        /\ MapGet(activeConfigs, Last(calls').workspaceRoot) # undefined)
       => LET a == Last(calls').workspaceRoot
              emitted == Last(fired2').payload
          IN /\ Len(fired2') = Len(fired2) + 1
             /\ ~MapHas(emitted, a)
             /\ MapHas(getAllActiveConfigs(Registry'), a)
             /\ getAllActiveConfigs(Registry').val[a] = undefined
             /\ \A k \in RootIds \ {a} :
                   /\ MapHas(activeConfigs', k) = MapHas(activeConfigs, k)
                   /\ MapGet(activeConfigs', k) = MapGet(activeConfigs, k)
                   /\ MapHas(emitted, k) = (MapGet(activeConfigs, k) # undefined)
                   /\ MapHas(emitted, k) => emitted.val[k] = activeConfigs.val[k]]_vars

\* C9 witness: X at A was cleared by a caller while Y stays active at B.
C9_Witness ==
    /\ Len(calls) = 3
    /\ calls[3].by = "caller" /\ calls[3].config = undefined
    /\ calls[3].workspaceRoot = "A"
    /\ MapGet(calls[3].before, "A") = X
    /\ MapHas(activeConfigs, "A") /\ activeConfigs.val["A"] = undefined
    /\ MapGet(activeConfigs, "B") = Y
    /\ ~MapHas(Last(fired2).payload, "A")
    /\ MapHas(Last(fired2).payload, "B")

(***************************************************************************)
(* C10. Roots without a setActiveConfig call: getActiveConfig(r) returns   *)
(* undefined for every root r for which setActiveConfig has never been     *)
(* called, in this session or in one before it, also after a persisted     *)
(* snapshot has been loaded and after revalidations.                       *)
(***************************************************************************)
C10_UntouchedRootAbsent ==
    \A r \in RootIds :
        r \notin touched
            => /\ getActiveConfig(Registry, r) = undefined
               /\ ~MapHas(getAllActiveConfigs(Registry), r)
               /\ ~InLoadedSnapshot(r)

\* C10 witness: after a restart the registry loaded a snapshot holding X for A,
\* revalidation then cleared A, and setActiveConfig was never called for B.
C10_Witness ==
    /\ nRestarts = 1
    /\ pc = "ready"
    /\ InLoadedSnapshot("A")
    /\ Len(calls) = 1 /\ calls[1].by = "revalidation"
    /\ touched = {"A"}
    /\ getActiveConfig(Registry, "B") = undefined

(***************************************************************************)
(* C11. Readiness: within a session ready resolves at most once (once      *)
(* resolved it stays resolved); it resolves only after the read issued     *)
(* once the preference source became ready has completed and its snapshot, *)
(* when there is one, has been installed as the map (the map is left as it *)
(* was when there is none); and once the preference source is ready the    *)
(* read is answered, so ready resolves unless the read failed.             *)
(***************************************************************************)
C11_Readiness ==
    /\ [][/\ ready = "resolved" => ready' = "resolved"
          /\ (ready # "resolved" /\ ready' = "resolved") => pc = "loaded"
          /\ (pc # "loaded" /\ pc' = "loaded")
                => /\ pc = "awaitRead"
                   /\ savedConfig' = storage
                   /\ storage # undefined
                         => activeConfigs' = MapFromEntries(storage.configs)
                   /\ storage = undefined => activeConfigs' = activeConfigs
          /\ (pc # "awaitRead" /\ pc' = "awaitRead") => pc = "awaitPrefs"]_vars
    /\ ((pc = "awaitRead") ~> (ready = "resolved" \/ pc = "failed"))

\* C11 witness: ready has resolved after a snapshot was read that holds Y for B,
\* while the map before the read held X for A.
C11_Witness ==
    /\ ready = "resolved"
    /\ savedConfig # undefined
    /\ savedConfig.configs = <<<<"B", Y>>>>
    /\ Len(calls) = 2
    /\ calls[2].workspaceRoot = "A" /\ calls[2].config = X
    /\ calls[2].before = storageSrc
    /\ activeConfigs = MapFromEntries(savedConfig.configs)

(***************************************************************************)
(* C12. Revalidation is scoped to the default root: a handled change       *)
(* notification leaves every root other than the first workspace root as   *)
(* it was in the map (same presence as a key, same value), also when that  *)
(* root's active configuration is not in its own valid list any more.      *)
(***************************************************************************)
C12_RevalidationOnlyDefaultRoot ==
    [][HandledNotificationStep =>
         \A k \in RootIds \ {roots[1]} :
            /\ MapHas(activeConfigs', k) = MapHas(activeConfigs, k)
            /\ MapGet(activeConfigs', k) = MapGet(activeConfigs, k)]_vars

\* C12 witness: X is active at B, the list of B has changed to one without X, the
\* notification was handled (revalidation made its call for A), and B still has X.
C12_Witness ==
    /\ roots = <<"A", "B">>
    /\ Len(calls) = 2
    /\ calls[1].workspaceRoot = "B" /\ calls[1].config = X
    /\ calls[2].by = "revalidation" /\ calls[2].workspaceRoot = "A"
    /\ prefs["B"] = <<Y2>>
    /\ getValidConfigs(prefs, "B") = <<Y2>>
    /\ getActiveConfig(Registry, "B") = X

(***************************************************************************)
(* C13. Load before subscribe: between the start of the snapshot read and  *)
(* its installation in the map no revalidation runs, so no call            *)
(* setActiveConfig(undefined) is made by revalidation in that interval.    *)
(***************************************************************************)
C13_NoRevalidationDuringLoad ==
    [][pc = "awaitRead" =>
         ~(Len(calls') > Len(calls) /\ Last(calls').by = "revalidation")]_vars

(***************************************************************************)
(* C14. Memory/snapshot agreement: whenever ready has resolved and no      *)
(* write and no read of the durable store is in flight, a snapshot held by *)
(* the store has the same roots as the in-memory map and, per root, an     *)
(* equal configuration or undefined, whatever calls and change             *)
(* notifications came before ready resolved.                               *)
(***************************************************************************)
C14_MemoryAgreesWithSnapshot ==
    (ready = "resolved" /\ pending = <<>> /\ storage # undefined)
        => SameEntries(MapFromEntries(storage.configs), activeConfigs)

(***************************************************************************)
(* C15. Step order inside setActiveConfig.                                 *)
(***************************************************************************)
\* The calls invoked, up to the n-th, that resolved to root.
CallsFor(root, n) == {j \in 1..n : calls[j].workspaceRoot = root}

\* The value set by the latest of the first n calls that resolved to root.
LatestSet(root, n) ==
    calls[CHOOSE j \in CallsFor(root, n) : \A k \in CallsFor(root, n) : k <= j].config

\* Each call updates the map, then issues the write of the full map, then fires
\* the multi-root emitter once, then the legacy emitter once with the value set.
StepOrder ==
    /\ Len(fired2) = Len(calls)
    /\ Len(fired1) = Len(calls)
    /\ {fired1[i].call : i \in 1..Len(fired1)} = 1..Len(calls)
    /\ \A i \in 1..Len(fired2) :
          /\ fired2[i].call = i
          /\ fired2[i].map = MapSet(calls[i].before, calls[i].workspaceRoot,
                                    calls[i].config)
          /\ fired2[i].written = [configs |-> MapEntries(fired2[i].map)]
    /\ \A i \in 1..Len(fired1) :
          /\ fired1[i].fired2Before >= fired1[i].call
          /\ fired1[i].value = calls[fired1[i].call].config
    /\ \A i \in 1..Len(seen1) :
          /\ seen1[i].call = fired1[i].call
          /\ seen1[i].payload = fired1[i].value
          /\ \A l \in ListenerIds :
                \E n \in 1..Len(seen2[l]) : seen2[l][n].call = seen1[i].call

\* C15 as stated: the steps are in that order and every handler of either stream
\* that reads getActiveConfig for the call's root during the emission reads the
\* value the call set.
C15_HandlersReadTheCallsValue ==
    /\ StepOrder
    /\ \A l \in ListenerIds : \A i \in 1..Len(seen2[l]) :
          seen2[l][i].read = calls[seen2[l][i].call].config
    /\ \A i \in 1..Len(seen1) : seen1[i].read = calls[seen1[i].call].config

\* C15 amended: the steps are in that order; the first handler of the multi-root
\* stream reads the value the call set; every handler of either stream reads the
\* value most recently set for the call's root, which is the call's own value
\* unless a handler that ran earlier in the same emission has called
\* setActiveConfig for that root.
C15_HandlersReadTheLatestValue ==
    /\ StepOrder
    /\ \A i \in 1..Len(seen2["L1"]) :
          seen2["L1"][i].read = calls[seen2["L1"][i].call].config
    /\ \A l \in ListenerIds : \A i \in 1..Len(seen2[l]) :
          LET o == seen2[l][i]
          IN /\ o.ncalls >= o.call
             /\ o.read = LatestSet(calls[o.call].workspaceRoot, o.ncalls)
             /\ CallsFor(calls[o.call].workspaceRoot, o.ncalls) \ (1..o.call) = {}
                   => o.read = calls[o.call].config
    /\ \A i \in 1..Len(seen1) :
          LET o == seen1[i]
          IN /\ o.ncalls >= o.call
             /\ o.read = LatestSet(calls[o.call].workspaceRoot, o.ncalls)
             /\ CallsFor(calls[o.call].workspaceRoot, o.ncalls) \ (1..o.call) = {}
                   => o.read = calls[o.call].config

\* C15 witness: a caller set X for A where Y was active; during the emission the
\* first handler set Y for A again; the first handler read X, the second handler
\* and the legacy handler read Y during the emission of the caller's call.
C15_Witness ==
    /\ Len(calls) = 3
    /\ calls[2].by = "caller" /\ calls[2].config = X /\ calls[2].workspaceRoot = "A"
    /\ MapGet(calls[2].before, "A") = Y
    /\ calls[3].by = "listener" /\ calls[3].config = Y /\ calls[3].workspaceRoot = "A"
    /\ \E i \in 1..3 : seen2["L1"][i].call = 2 /\ seen2["L1"][i].read = X
    /\ \E i \in 1..3 : seen2["L2"][i].call = 2 /\ seen2["L2"][i].read = Y
    /\ \E i \in 1..3 : seen1[i].call = 2 /\ seen1[i].read = Y /\ seen1[i].payload = X

(***************************************************************************)
(* C16. Storage read failure surfaces: when the read issued during         *)
(* initialization fails, ready does not resolve and does not stay pending  *)
(* forever: it is rejected.                                                *)
(***************************************************************************)
C16_ReadFailureRejectsReady ==
    /\ [](pc = "failed" => ready # "resolved")
    /\ ((pc = "failed") ~> (ready = "rejected"))

(***************************************************************************)
(* C17. Revalidation keeps a still-valid selection: when a change          *)
(* notification is handled while the default root's active configuration c *)
(* has the name and directory of some entry of getValidConfigs(), whatever *)
(* the commands, then the map, the writes issued and the durable snapshot  *)
(* are as before, the active configuration of the default root is still c, *)
(* no call is made and neither emitter fires.                              *)
(***************************************************************************)
C17_RevalidationKeepsValid ==
    [][(/\ HandledNotificationStep
        /\ MapGet(activeConfigs, roots[1]) # undefined
        /\ LET c == MapGet(activeConfigs, roots[1])
               v == getValidConfigs(prefs', "")
           IN \E i \in 1..Len(v) :
                 v[i].name = c.name /\ v[i].directory = c.directory)
       => /\ activeConfigs' = activeConfigs
          /\ getActiveConfig(Registry', "") = MapGet(activeConfigs, roots[1])
          /\ pending' = pending
          /\ storage' = storage
          /\ calls' = calls
          /\ fired2' = fired2
          /\ fired1' = fired1
          /\ seen2' = seen2
          /\ seen1' = seen1]_vars

\* C17 witness: X (commands K1) is active at the default root; the handler
\* filtered a list that holds X2 (same name and directory, commands K2) and made
\* no call: X is still active and the only call is the caller's.
C17_Witness ==
    /\ nRestarts = 0
    /\ Len(calls) = 1
    /\ calls[1].by = "caller" /\ calls[1].config = X /\ calls[1].workspaceRoot = "A"
    /\ rawInput = [root |-> "", list |-> <<X2>>]
    /\ validOutput = <<X2>>
    /\ ~equals(X2, X)
    /\ getActiveConfig(Registry, "") = X
    /\ Len(fired2) = 1 /\ Len(fired1) = 1

(***************************************************************************)
(* C18. Single-entry replace: a call setActiveConfig(c, r) changes the     *)
(* entry of the resolved root only: for every other root, its presence as  *)
(* a key of the map and what getActiveConfig returns for it are the same   *)
(* before and after the call.                                              *)
(***************************************************************************)
C18_SingleEntryReplace ==
    [][OneCallStep =>
         LET c == calls'[Len(calls')]
         IN /\ MapHas(activeConfigs', c.workspaceRoot)
            /\ activeConfigs'.val[c.workspaceRoot] = c.config
            /\ \A k \in RootIds \ {c.workspaceRoot} :
                  /\ MapHas(activeConfigs', k) = MapHas(activeConfigs, k)
                  /\ getActiveConfig(Registry', k) = getActiveConfig(Registry, k)]_vars

\* C18 witness: with X active at A and Y at B, a caller replaced Y by X at B:
\* A still has X and B has X.
C18_Witness ==
    /\ Len(calls) = 3
    /\ calls[3].by = "caller" /\ calls[3].workspaceRoot = "B" /\ calls[3].config = X
    /\ MapGet(calls[3].before, "A") = X
    /\ MapGet(calls[3].before, "B") = Y
    /\ getActiveConfig(Registry, "A") = X
    /\ getActiveConfig(Registry, "B") = X
    /\ activeConfigs.keys = calls[3].before.keys

(***************************************************************************)
(* C19. No external mutation of registry state: the in-memory map changes  *)
(* only in a setActiveConfig call (a caller's or revalidation's) and in    *)
(* the initial snapshot load; a caller that writes to the map obtained     *)
(* from getAllActiveConfigs() changes neither what getActiveConfig and     *)
(* getAllActiveConfigs return nor what is written to the store.            *)
(***************************************************************************)
C19_MapChangesOnlyByOperations ==
    [][(\/ getAllActiveConfigs(Registry') # getAllActiveConfigs(Registry)
        \/ \E k \in RootIds :
              getActiveConfig(Registry', k) # getActiveConfig(Registry, k))
       => \/ Len(calls') > Len(calls)
          \/ pc = "awaitRead" /\ pc' = "loaded"]_vars

(***************************************************************************)
(* C20. Revalidation with nothing selected still performs a clear: when a  *)
(* change notification is handled while the default root has no active     *)
(* configuration (no entry, or an entry holding undefined), revalidation   *)
(* calls setActiveConfig(undefined) for the default root: the default root *)
(* is then a key holding undefined, a write of the full map is issued, and *)
(* both emitters fire once, the legacy one with undefined.                 *)
(***************************************************************************)
C20_RevalidationClearsWhenNothingSelected ==
    [][(HandledNotificationStep /\ MapGet(activeConfigs, roots[1]) = undefined)
       => /\ Len(calls') = Len(calls) + 1
          /\ Last(calls').by = "revalidation"
          /\ Last(calls').config = undefined
          /\ Last(calls').workspaceRoot = roots[1]
          /\ MapHas(activeConfigs', roots[1])
          /\ activeConfigs'.val[roots[1]] = undefined
          /\ Len(pending') = Len(pending) + 1
          /\ Last(pending') = [configs |-> MapEntries(activeConfigs')]
          /\ Len(fired2') = Len(fired2) + 1
          /\ Last(fired2').payload = CompactedMap(activeConfigs')
          /\ Len(fired1') = Len(fired1) + 1
          /\ Last(fired1').value = undefined
          /\ \A l \in ListenerIds : Len(seen2'[l]) = Len(seen2[l]) + 1
          /\ Len(seen1') = Len(seen1) + 1]_vars

\* C20 witness: X is active at B and the default root A has no entry; a change
\* notification was handled, and revalidation added A as a key holding undefined
\* and issued the write of both entries.
C20_Witness ==
    /\ Len(calls) = 2
    /\ calls[1].by = "caller" /\ calls[1].workspaceRoot = "B" /\ calls[1].config = X
    /\ calls[2].by = "revalidation"
    /\ ~MapHas(calls[2].before, "A")
    /\ activeConfigs.keys = <<"B", "A">>
    /\ activeConfigs.val["A"] = undefined
    /\ pending # <<>>
    /\ Last(pending) = [configs |-> <<<<"B", X>>, <<"A", undefined>>>>]
    /\ Last(fired1).value = undefined

====
